---- MODULE Spec2Model ----
(***************************************************************************)
(* Shield Web Guard (src/src/App.tsx): the App component's state, its      *)
(* event handlers (URL input, scan button, history toggle, history clear), *)
(* the delayed scan continuation, the heuristic classifier                 *)
(* performSecurityChecks and the history persisted under 'scan-history'.   *)
(*                                                                         *)
(* Strings are TLA+ strings; the string predicates of the code             *)
(* (startsWith, includes, endsWith, length, RegExp.test) are computed      *)
(* character by character with SubSeq and Len.                             *)
(***************************************************************************)
EXTENDS Integers, Sequences, FiniteSets, TLC

VARIABLES
    url,           \* useState('')            the URL input's value
    scanning,      \* useState(false)
    result,        \* useState(null)          <<>> for null, <<r>> for a ScanResult
    history,       \* useState(() => saved)   sequence of ScanResult, newest first
    showHistory,   \* useState(false)
    localStorage,  \* the browser's store: a set of <<key, text>> pairs
    inflight,      \* pending scanUrl continuations: the url each closure captured
    now,           \* the clock Date.now() reads
    nScans,        \* number of scans started (bounds the model)
    sinceEmpty,    \* history variable: the results pushed since the history was known empty
    edited         \* history variable: the input was edited while the scan was pending

vars == <<url, scanning, result, history, showHistory, localStorage, inflight,
          now, nScans, sinceEmpty, edited>>

----------------------------------------------------------------------------
(* Strings *)

CharAt(s, i) == SubSeq(s, i, i)

StartsWith(s, p) == Len(s) >= Len(p) /\ SubSeq(s, 1, Len(p)) = p

EndsWith(s, p) == Len(s) >= Len(p) /\ SubSeq(s, Len(s) - Len(p) + 1, Len(s)) = p

Includes(s, p) == \E i \in 1..(Len(s) - Len(p) + 1) : SubSeq(s, i, i + Len(p) - 1) = p

\* the characters of s, as a set
Chars(s) == { CharAt(s, i) : i \in 1..Len(s) }

\* index of the first character of s that lies in cs, or Len(s)+1
FirstOf(s, cs) ==
    IF \E i \in 1..Len(s) : CharAt(s, i) \in cs
    THEN CHOOSE i \in 1..Len(s) :
            /\ CharAt(s, i) \in cs
            /\ \A j \in 1..(i - 1) : CharAt(s, j) \notin cs
    ELSE Len(s) + 1

\* index of the first character of s that lies outside cs, or Len(s)+1
FirstNotOf(s, cs) ==
    IF \E i \in 1..Len(s) : CharAt(s, i) \notin cs
    THEN CHOOSE i \in 1..Len(s) :
            /\ CharAt(s, i) \notin cs
            /\ \A j \in 1..(i - 1) : CharAt(s, j) \in cs
    ELSE Len(s) + 1

\* index of the last character of s that lies outside cs, or 0
LastNotOf(s, cs) ==
    IF \E i \in 1..Len(s) : CharAt(s, i) \notin cs
    THEN CHOOSE i \in 1..Len(s) :
            /\ CharAt(s, i) \notin cs
            /\ \A j \in (i + 1)..Len(s) : CharAt(s, j) \in cs
    ELSE 0

UpperAlpha == "ABCDEFGHIJKLMNOPQRSTUVWXYZ"
LowerAlpha == "abcdefghijklmnopqrstuvwxyz"
Digits == "0123456789"

LowerChar(c) ==
    IF c \in Chars(UpperAlpha)
    THEN CharAt(LowerAlpha, CHOOSE i \in 1..Len(UpperAlpha) : CharAt(UpperAlpha, i) = c)
    ELSE c

RECURSIVE ToLowerCase(_)
ToLowerCase(s) ==
    IF Len(s) = 0 THEN ""
    ELSE LowerChar(CharAt(s, 1)) \o ToLowerCase(SubSeq(s, 2, Len(s)))

RECURSIVE Repeat(_, _)
Repeat(s, n) == IF n = 0 THEN "" ELSE s \o Repeat(s, n - 1)

----------------------------------------------------------------------------
(* new URL(url): the parse of an absolute URL string, on the alphabet of   *)
(* the inputs below (no userinfo, no IPv4/IPv6 literal, no percent-escape  *)
(* in the host). Failure models the TypeError the constructor throws.      *)

SpecialSchemes == {"http", "https", "ws", "wss", "ftp"}

\* forbidden host code points of the alphabet in use
ForbiddenHostChars == {" ", "#", "/", ":", "<", ">", "?", "@", "[", "\\", "]", "^", "|", "%"}

AlphaChars == Chars(UpperAlpha) \cup Chars(LowerAlpha)

SchemeChars == AlphaChars \cup Chars(Digits) \cup {"+", "-", "."}

ParseFailure == [ok |-> FALSE, protocol |-> "", hostname |-> ""]

ParseSuccess(scheme, host) == [ok |-> TRUE, protocol |-> scheme \o ":", hostname |-> host]

\* s up to its first character in cs
Before(s, cs) == SubSeq(s, 1, FirstOf(s, cs) - 1)

\* s after its first character in cs
After(s, cs) == SubSeq(s, FirstOf(s, cs) + 1, Len(s))

\* leading and trailing spaces are stripped
Trim(s) == SubSeq(s, FirstNotOf(s, {" "}), LastNotOf(s, {" "}))

\* scheme state: an ASCII letter, then letters, digits, "+", "-", "."
SchemeOk(raw) ==
    /\ Len(raw) >= 1
    /\ CharAt(raw, 1) \in AlphaChars
    /\ Chars(raw) \subseteq SchemeChars

\* host and port states: a non-empty host without forbidden code points, a numeric port
ParseHost(scheme, host, port, forbidden, emptyOk) ==
    IF \/ (Len(host) = 0 /\ ~emptyOk)
       \/ Chars(host) \cap forbidden # {}
       \/ ~(Chars(port) \subseteq Chars(Digits))
    THEN ParseFailure
    ELSE ParseSuccess(scheme, host)

ParseAuthority(scheme, authority, forbidden, emptyOk) ==
    ParseHost(scheme, Before(authority, {":"}), After(authority, {":"}), forbidden, emptyOk)

\* special schemes: any run of slashes and backslashes precedes the authority,
\* which ends at "/", "\", "?" or "#"; the host is lower-cased
ParseSpecial(scheme, rest) ==
    ParseAuthority(scheme,
                   ToLowerCase(Before(SubSeq(rest, FirstNotOf(rest, {"/", "\\"}), Len(rest)),
                                      {"/", "\\", "?", "#"})),
                   ForbiddenHostChars, FALSE)

\* other schemes: an authority only after "//" (an opaque host), else an opaque path
ParseOther(scheme, rest) ==
    IF StartsWith(rest, "//")
    THEN ParseAuthority(scheme, Before(SubSeq(rest, 3, Len(rest)), {"/", "?", "#"}),
                        ForbiddenHostChars \ {"%"}, TRUE)
    ELSE ParseSuccess(scheme, "")

ParseScheme(hasColon, raw, rest) ==
    IF ~(hasColon /\ SchemeOk(raw)) THEN ParseFailure
    ELSE IF ToLowerCase(raw) \in SpecialSchemes THEN ParseSpecial(ToLowerCase(raw), rest)
    ELSE ParseOther(ToLowerCase(raw), rest)

ParseTrimmed(t) == ParseScheme(Includes(t, ":"), Before(t, {":"}), After(t, {":"}))

\* new URL(url): [ok |-> FALSE, ...] when the constructor throws
URLParse(s) == ParseTrimmed(Trim(s))

----------------------------------------------------------------------------
(* performSecurityChecks *)

InsecureLabel == "Insecure connection (non-HTTPS)"
MalwareLabel  == "Potential malware detected"
TldLabel      == "Suspicious top-level domain detected"
LongLabel     == "Unusually long URL detected"
SpecialLabel  == "Suspicious special characters detected"
InvalidLabel  == "Invalid URL format"

suspiciousTLDs == <<".xyz", ".tk", ".ml", ".ga", ".cf">>

MaxUrlLength == 100

\* the character class of /[<>'"%;()&+]/
SpecialChars == {"<", ">", "'", "\"", "%", ";", "(", ")", "&", "+"}

RegexTest(s) == \E i \in 1..Len(s) : CharAt(s, i) \in SpecialChars

\* `certificates: undefined`
Undefined == [undefined |-> TRUE]

\* format(new Date().setFullYear(new Date().getFullYear() + 1), 'yyyy-MM-dd') at clock t
ExpiryDate(t) == [yearsAfter |-> 1, date |-> t]

IsSuspiciousTLD(u) == \E i \in 1..Len(suspiciousTLDs) : EndsWith(u, suspiciousTLDs[i])

\* if (cond) threats.push(label)
PushIf(cond, threats, label) == IF cond THEN Append(threats, label) ELSE threats

\* the five checks chained with else-if: the first that fires hides the rest
ThreatsElseIf(u) ==
    IF ~StartsWith(u, "https://") THEN <<InsecureLabel>>
    ELSE IF Includes(u, "malware") \/ Includes(u, "virus") THEN <<MalwareLabel>>
    ELSE IF IsSuspiciousTLD(u) THEN <<TldLabel>>
    ELSE IF Len(u) > MaxUrlLength THEN <<LongLabel>>
    ELSE IF RegexTest(u) THEN <<SpecialLabel>>
    ELSE <<>>

\* the malware check looking for "malware" only
ThreatsMalwareOnly(u) ==
    PushIf(RegexTest(u),
      PushIf(Len(u) > MaxUrlLength,
        PushIf(IsSuspiciousTLD(u),
          PushIf(Includes(u, "malware"),
            PushIf(~StartsWith(u, "https://"), <<>>, InsecureLabel),
            MalwareLabel),
          TldLabel),
        LongLabel),
      SpecialLabel)

\* the threats array after the five `if` statements, each pushing onto the same
\* array, innermost first: protocol, malware, TLD, length, special characters
Threats(u) ==
    PushIf(RegexTest(u),
      PushIf(Len(u) > MaxUrlLength,
        PushIf(IsSuspiciousTLD(u),
          PushIf(Includes(u, "malware") \/ Includes(u, "virus"),
            PushIf(~StartsWith(u, "https://"), <<>>, InsecureLabel),
            MalwareLabel),
          TldLabel),
        LongLabel),
      SpecialLabel)

\* the details record of a URL that parsed
Details(u, urlObj, rt, t) ==
    [protocol     |-> urlObj.protocol,
     domain       |-> urlObj.hostname,
     responseTime |-> rt,
     certificates |-> IF StartsWith(u, "https://")
                      THEN [valid |-> TRUE, issuer |-> "DigiCert Inc",
                            expiryDate |-> ExpiryDate(t)]
                      ELSE Undefined]

ChecksOf(u, urlObj, rt, t) ==
    IF ~urlObj.ok
    THEN [threw |-> TRUE, threats |-> <<>>, details |-> Undefined]
    ELSE [threw |-> FALSE, threats |-> Threats(u), details |-> Details(u, urlObj, rt, t)]

\* threw: new URL(url) threw before any check ran; rt is the value Math.random()
\* yields, t the clock
performSecurityChecks(u, rt, t) == ChecksOf(u, URLParse(u), rt, t)

----------------------------------------------------------------------------
(* scanUrl, after the delay *)

HistoryLimit == 10

\* safe set without looking at the threats
SafeAlways(threats) == TRUE

\* safe: threats.length === 0
Safe(threats) == Len(threats) = 0

\* the push without the slice
PushUnbounded(prev, r) == <<r>> \o prev

\* [scanResult, ...prev].slice(0, 10)
PushHistory(prev, r) ==
    LET all == <<r>> \o prev
    IN  SubSeq(all, 1, IF Len(all) < HistoryLimit THEN Len(all) ELSE HistoryLimit)

\* the catch block's record with its threats left empty
CatchResultEmptyThreats(u, t) ==
    [url |-> u, timestamp |-> t, safe |-> FALSE, threats |-> <<>>,
     details |-> [protocol |-> "unknown", domain |-> "unknown", responseTime |-> 0]]

\* the record the catch block sets: no certificates key at all
CatchResult(u, t) ==
    [url |-> u, timestamp |-> t, safe |-> FALSE, threats |-> <<InvalidLabel>>,
     details |-> [protocol |-> "unknown", domain |-> "unknown", responseTime |-> 0]]

\* the ScanResult the try block builds
TryResult(u, t, c) ==
    [url |-> u, timestamp |-> t, safe |-> Safe(c.threats), threats |-> c.threats,
     details |-> c.details]

\* setScanning(false) moved inside the try block
OutcomeStuck(u, t, c) ==
    IF c.threw
    THEN [result |-> CatchResult(u, t), pushed |-> FALSE, scanning |-> TRUE]
    ELSE [result |-> TryResult(u, t, c), pushed |-> TRUE, scanning |-> FALSE]

\* the catch block also pushing its record
OutcomePushAll(u, t, c) ==
    IF c.threw
    THEN [result |-> CatchResult(u, t), pushed |-> TRUE, scanning |-> FALSE]
    ELSE [result |-> TryResult(u, t, c), pushed |-> TRUE, scanning |-> FALSE]

\* try: setResult, setHistory (pushed); catch: setResult only; then
\* setScanning(false) after the try statement
Outcome(u, t, c) ==
    IF c.threw
    THEN [result |-> CatchResult(u, t), pushed |-> FALSE, scanning |-> FALSE]
    ELSE [result |-> TryResult(u, t, c), pushed |-> TRUE, scanning |-> FALSE]

\* the body of scanUrl after the await, for the captured url u
ScanContinuation(u, rt, t) == Outcome(u, t, performSecurityChecks(u, rt, t))

----------------------------------------------------------------------------
(* localStorage and JSON *)

HistoryKey == "scan-history"

\* localStorage.getItem(key): <<>> for null, <<text>> for a stored text
GetItem(store, key) ==
    IF \E p \in store : p[1] = key
    THEN <<(CHOOSE p \in store : p[1] = key)[2]>>
    ELSE <<>>

SetItem(store, key, text) == { p \in store : p[1] # key } \cup { <<key, text>> }

RemoveItem(store, key) == { p \in store : p[1] # key }

\* JSON.stringify of one ScanResult: a key whose value is undefined is left out
ResultToJSON(r) ==
    [url |-> r.url, timestamp |-> r.timestamp, safe |-> r.safe, threats |-> r.threats,
     details |->
        IF "certificates" \in DOMAIN r.details /\ r.details.certificates # Undefined
        THEN [protocol |-> r.details.protocol, domain |-> r.details.domain,
              responseTime |-> r.details.responseTime,
              certificates |-> r.details.certificates]
        ELSE [protocol |-> r.details.protocol, domain |-> r.details.domain,
              responseTime |-> r.details.responseTime]]

\* JSON.stringify(history): the text of a JSON array
JSONStringify(h) == [json |-> "array", items |-> [i \in 1..Len(h) |-> ResultToJSON(h[i])]]

\* JSON.parse(saved)
JSONParse(text) == text.items

\* the state initializer of history
InitialHistory(store) ==
    LET saved == GetItem(store, HistoryKey)
    IN  IF saved # <<>> THEN JSONParse(saved[1]) ELSE <<>>

\* useEffect(() => localStorage.setItem('scan-history', JSON.stringify(history)), [history])
PersistEffect(store, h) == SetItem(store, HistoryKey, JSONStringify(h))

----------------------------------------------------------------------------
(* Inputs *)

SafeUrl    == "https://example.com"
ThreatUrl  == "http://example.xyz"
InvalidUrl == "malware<site>.xyz"

\* what the user types into the input
Urls == {"", SafeUrl, ThreatUrl, InvalidUrl}

HistUrls == {SafeUrl, ThreatUrl}

\* the strings the classifier is scanned on: every prefix, host, ending and tail;
\* "https://example.com/" with 80 and 81 letters is 100 and 101 characters long
Prefixes == {"https://", "http://", "HTTPS://", " https://", "ftp://", "mailto:", ""}
Hosts    == {"example", "malware", "my-virus-site", "Virus", "exa mple", "not a url", ""}
Endings  == {".com", ".xyz", ".tk", ".ml", ".ga", ".cf", ""}
Tails    == {"", "/path", ":8080/x", "/malware.exe", "/?q=<script>", "/a;b", "/it's",
             "/50%", "/f(x)+1", "?a=1&b=2", "/\"q\"", "/x.xyz",
             "/" \o Repeat("a", 80), "/" \o Repeat("a", 81),
             "/" \o Repeat("a", MaxUrlLength), "/<" \o Repeat("a", MaxUrlLength) \o ".tk"}

TestStrings == { p \o h \o e \o t : p \in Prefixes, h \in Hosts, e \in Endings, t \in Tails }

\* the values Math.random() * 100 + 50 takes, at both ends of [50, 150)
ResponseTimes == {50, 149}

HistResponseTimes == {50}

MaxScans == 3
MaxHistScans == 11
MaxTestScans == 1

\* a history an earlier session of the program left behind: two scans at clock -2 and -1
EarlierHistory ==
    PushHistory(PushHistory(<<>>, ScanContinuation(ThreatUrl, 149, 0 - 2).result),
                ScanContinuation(SafeUrl, 50, 0 - 1).result)

\* the store the program may find when it starts: no key, "[]", an earlier history
SavedStores ==
    { {}, PersistEffect({}, <<>>), PersistEffect({}, EarlierHistory) }

----------------------------------------------------------------------------
(* The component *)

\* construction: the state initializers, then the first run of the effect
InitWith(inputs, stores) ==
    /\ url \in inputs
    /\ scanning = FALSE
    /\ result = <<>>
    /\ showHistory = FALSE
    /\ inflight = <<>>
    /\ now = 0
    /\ nScans = 0
    /\ edited = FALSE
    /\ \E store \in stores :
          /\ history = InitialHistory(store)
          /\ localStorage = PersistEffect(store, history)
    /\ sinceEmpty = [known |-> history = <<>>, pushed |-> <<>>]

Init == InitWith({""}, SavedStores)

\* onChange of the input: setUrl(e.target.value)
SetUrl(u) ==
    /\ u # url
    /\ url' = u
    /\ edited' = (edited \/ inflight # <<>>)
    /\ UNCHANGED <<scanning, result, history, showHistory, localStorage, inflight,
                   now, nScans, sinceEmpty>>

\* the scan button with only the empty-input test
ScanEnabledNoScanningTest(isScanning, u) == u # ""

\* the scan button is enabled: not (disabled = scanning || !url)
ScanEnabled(isScanning, u) == ~(isScanning \/ u = "")

\* onClick of the scan button: scanUrl up to its await; the closure keeps url
StartScan(cap) ==
    /\ ScanEnabled(scanning, url)
    /\ nScans < cap
    /\ scanning' = TRUE
    /\ inflight' = Append(inflight, url)
    /\ nScans' = nScans + 1
    /\ edited' = FALSE
    /\ UNCHANGED <<url, result, history, showHistory, localStorage, now, sinceEmpty>>

\* the continuation reading the input's current value
CapturedCurrent(closure, current) == current

\* the url a continuation works on: the one its closure captured
Captured(closure, current) == closure

\* the state updates of one continuation, the render, then the effect when
\* setHistory was called
Commit(o) ==
    /\ result' = <<o.result>>
    /\ scanning' = o.scanning
    /\ history' = IF o.pushed THEN PushHistory(history, o.result) ELSE history
    /\ localStorage' = IF o.pushed THEN PersistEffect(localStorage, history')
                       ELSE localStorage
    /\ sinceEmpty' = IF o.pushed /\ sinceEmpty.known
                     THEN [sinceEmpty EXCEPT !.pushed = Append(@, o.result)]
                     ELSE sinceEmpty

\* the timer fires: scanUrl after its await
FinishScan(rts) ==
    /\ inflight # <<>>
    /\ \E rt \in rts : Commit(ScanContinuation(Captured(Head(inflight), url), rt, now))
    /\ inflight' = Tail(inflight)
    /\ now' = now + 1
    /\ UNCHANGED <<url, showHistory, nScans, edited>>

\* onClick of the history toggle
ToggleHistory ==
    /\ showHistory' = ~showHistory
    /\ UNCHANGED <<url, scanning, result, history, localStorage, inflight, now,
                   nScans, sinceEmpty, edited>>

\* onClick of Clear, rendered when showHistory && history.length > 0:
\* setHistory([]), removeItem, then the render and the effect for the new history
ClearHistory ==
    /\ showHistory
    /\ Len(history) > 0
    /\ history' = <<>>
    /\ localStorage' = PersistEffect(RemoveItem(localStorage, HistoryKey), history')
    /\ sinceEmpty' = [known |-> TRUE, pushed |-> <<>>]
    /\ UNCHANGED <<url, scanning, result, showHistory, inflight, now, nScans, edited>>

Next ==
    \/ \E u \in Urls : SetUrl(u)
    \/ StartScan(MaxScans)
    \/ FinishScan(ResponseTimes)
    \/ ToggleHistory
    \/ ClearHistory

Spec == Init /\ [][Next]_vars

\* The pending timer fires: of the steps of Next only those of FinishScan take a
\* continuation off inflight, and FinishScan is enabled exactly when inflight is
\* not empty.
TimerFires == inflight # <<>> /\ inflight' = Tail(inflight)

\* The delay timer always fires (setTimeout(resolve, 1500) is never cleared):
\* weak fairness of the FinishScan steps.
SpecLive == Spec /\ WF_inflight(TimerFires)

\* long runs of successful scans, for the history's bound
NextHist ==
    \/ \E u \in HistUrls : SetUrl(u)
    \/ StartScan(MaxHistScans)
    \/ FinishScan(HistResponseTimes)
    \/ ToggleHistory
    \/ ClearHistory

SpecHist == Init /\ [][NextHist]_vars

\* one scan of each test string
InitScan == InitWith(TestStrings, {{}})

NextScan ==
    \/ StartScan(MaxTestScans)
    \/ FinishScan(ResponseTimes)

SpecScan == InitScan /\ [][NextScan]_vars

----------------------------------------------------------------------------
(* Properties *)

\* the entries of a sequence, as a set of indices' values
Holds(seq, P(_)) == \A i \in 1..Len(seq) : P(seq[i])

Contains(seq, x) == \E i \in 1..Len(seq) : seq[i] = x

\* a step of the Clear handler: the only step that empties a non-empty history
ClearStep == showHistory /\ Len(history) > 0 /\ history' = <<>>

\* a step in which a pending scan completes
FinishStep == inflight # <<>> /\ inflight' = <<>>

\* C1: after clearHistory, its state update and the persisting effect have run,
\* the history is empty and the 'scan-history' key is absent from the store.
C1_ClearRemovesKey ==
    [][ClearStep => (history' = <<>> /\ GetItem(localStorage', HistoryKey) = <<>>)]_vars

\* the newest min(n, 10) of the results pushed, newest first
NewestFirst(pushed) ==
    [i \in 1..(IF Len(pushed) < HistoryLimit THEN Len(pushed) ELSE HistoryLimit)
        |-> pushed[Len(pushed) + 1 - i]]

\* C2: starting from an empty history, after n successful scans with no clear in
\* between the history is exactly the min(n, 10) most recent results, newest first;
\* it never holds more than 10 entries.
C2_HistoryNewestTen ==
    /\ Len(history) <= HistoryLimit
    /\ sinceEmpty.known => history = NewestFirst(sinceEmpty.pushed)

\* eleven pushes onto a history that started empty: the oldest one is gone
C2_Witness ==
    /\ sinceEmpty.known
    /\ Len(sinceEmpty.pushed) = HistoryLimit + 1
    /\ Len(history) = HistoryLimit
    /\ ~Contains(history, sinceEmpty.pushed[1])

SafeIffNoThreats(r) == r.safe <=> Len(r.threats) = 0

\* C3: the displayed result, when present, and every history entry has safe = true
\* iff its threats list is empty, sentinel results included.
C3_SafeIffNoThreats ==
    /\ Holds(result, SafeIffNoThreats)
    /\ Holds(history, SafeIffNoThreats)

\* a safe entry and an unsafe one in the history, the sentinel on display
C3_Witness ==
    /\ \E i \in 1..Len(history) : history[i].safe
    /\ \E i \in 1..Len(history) : ~history[i].safe
    /\ result # <<>>
    /\ result[1].threats = <<InvalidLabel>>

\* C4: a scan of a string that fails URL parsing ends (scanning is false again)
\* with the sentinel on display: safe = false, threats = ["Invalid URL format"],
\* protocol and domain "unknown", responseTime 0, no certificate record.
C4_InvalidUrlSentinel ==
    [][(FinishStep /\ ~URLParse(Head(inflight)).ok) =>
        /\ ~scanning'
        /\ result' # <<>>
        /\ result'[1].url = Head(inflight)
        /\ result'[1].safe = FALSE
        /\ result'[1].threats = <<InvalidLabel>>
        /\ result'[1].details.protocol = "unknown"
        /\ result'[1].details.domain = "unknown"
        /\ result'[1].details.responseTime = 0
        /\ "certificates" \notin DOMAIN result'[1].details]_vars

\* the sentinel on display, the scan over, for a string of which the protocol,
\* malware, TLD and special-character predicates all hold
C4_Witness ==
    /\ ~scanning
    /\ result # <<>>
    /\ ~URLParse(result[1].url).ok
    /\ Includes(result[1].url, "malware")
    /\ IsSuspiciousTLD(result[1].url)
    /\ RegexTest(result[1].url)
    /\ result[1].threats = <<InvalidLabel>>

HasMalwareWord(s) == Includes(s, "malware") \/ Includes(s, "virus")

\* C5 as stated: every scanned string containing "malware" or "virus" gets the
\* malware label.
C5_AnyStringMalwareLabel ==
    (result # <<>> /\ HasMalwareWord(result[1].url)) =>
        Contains(result[1].threats, MalwareLabel)

\* C5, amended: every scanned string that parses as a URL and contains "malware"
\* or "virus" (case-sensitive) gets the malware label.
C5_ParsedMalwareLabel ==
    (result # <<>> /\ URLParse(result[1].url).ok /\ HasMalwareWord(result[1].url)) =>
        Contains(result[1].threats, MalwareLabel)

\* "virus" in the path of a URL that parses, and no "malware" anywhere
C5_Witness ==
    /\ result # <<>>
    /\ URLParse(result[1].url).ok
    /\ Includes(result[1].url, "virus")
    /\ ~Includes(result[1].url, "malware")
    /\ ~Includes(URLParse(result[1].url).hostname, "virus")
    /\ Contains(result[1].threats, MalwareLabel)

\* the five labels in check order, and the predicate of each
CheckOrder == <<InsecureLabel, MalwareLabel, TldLabel, LongLabel, SpecialLabel>>

Fires(label, s) ==
    CASE label = InsecureLabel -> ~StartsWith(s, "https://")
      [] label = MalwareLabel  -> HasMalwareWord(s)
      [] label = TldLabel      -> \E tld \in {".xyz", ".tk", ".ml", ".ga", ".cf"} : EndsWith(s, tld)
      [] label = LongLabel     -> Len(s) > 100
      [] label = SpecialLabel  -> Chars(s) \cap {"<", ">", "'", "\"", "%", ";", "(", ")", "&", "+"} # {}

FiredLabels(s) == SelectSeq(CheckOrder, LAMBDA label : Fires(label, s))

\* C6: for a string that parses, the threats are exactly the subsequence of the
\* five labels whose predicate holds, each at most once, in check order; no check
\* that fires hides a later one.
C6_ThreatsAreFiredLabels ==
    (result # <<>> /\ URLParse(result[1].url).ok) =>
        result[1].threats = FiredLabels(result[1].url)

\* all five checks fire on one string
C6_Witness ==
    /\ result # <<>>
    /\ URLParse(result[1].url).ok
    /\ result[1].threats = CheckOrder

\* C7: at most one scan is in flight; the scan action is enabled only when
\* scanning = false and the input is non-empty; scanning is true exactly while a
\* scan is pending.
C7_OneScanInFlight ==
    /\ Len(inflight) <= 1
    /\ scanning <=> inflight # <<>>
    /\ (ENABLED StartScan(MaxScans)) => (~scanning /\ url # "")

\* a scan is pending, the input holds another non-empty value, and no scan can start
C7_Witness ==
    /\ scanning
    /\ Len(inflight) = 1
    /\ url # ""
    /\ url # inflight[1]
    /\ nScans < MaxScans
    /\ ~ENABLED StartScan(MaxScans)

\* C8: under fairness of the delay timer every started scan completes: scanning
\* becomes false again with that scan's result on display, whatever is edited,
\* toggled or cleared during the delay.
C8_ScanCompletes ==
    \A u \in Urls \ {""} :
        (scanning /\ inflight = <<u>>) ~>
            (~scanning /\ inflight = <<>> /\ result # <<>> /\ result[1].url = u)

\* a scan of an invalid string completed, with the sentinel, although the input
\* was edited while it was pending
C8_Witness ==
    /\ edited
    /\ ~scanning
    /\ inflight = <<>>
    /\ result # <<>>
    /\ result[1].url # url
    /\ result[1].threats = <<InvalidLabel>>

NotSentinel(r) == r.threats # <<InvalidLabel>> /\ URLParse(r.url).ok

\* C9: a scan of a string that fails URL parsing leaves the history (and the store)
\* unchanged; no history entry is the "Invalid URL format" sentinel, every entry
\* is the result of a string that parsed.
C9_InvalidScanKeepsHistory ==
    /\ [](Holds(history, NotSentinel))
    /\ [][(FinishStep /\ ~URLParse(Head(inflight)).ok) =>
            (history' = history /\ localStorage' = localStorage)]_vars

\* the sentinel on display next to a non-empty history that does not hold it
C9_Witness ==
    /\ ~scanning
    /\ result # <<>>
    /\ result[1].threats = <<InvalidLabel>>
    /\ Len(history) > 0
    /\ ~Contains(history, result[1])

\* C10: a completed scan's result is that of the input value at the moment the
\* scan was started: its url, its threats and its history entry, whatever the
\* input holds at completion.
C10_ResultOfUrlAtStart ==
    [][FinishStep =>
        /\ result' # <<>>
        /\ result'[1].url = Head(inflight)
        /\ result'[1].threats =
              IF URLParse(Head(inflight)).ok THEN FiredLabels(Head(inflight))
              ELSE <<InvalidLabel>>
        /\ URLParse(Head(inflight)).ok =>
              (history' # <<>> /\ history'[1] = result'[1])]_vars

\* the input was edited during the delay: the result on display and the newest
\* history entry are for the earlier value
C10_Witness ==
    /\ edited
    /\ ~scanning
    /\ result # <<>>
    /\ result[1].url # url
    /\ url # ""
    /\ history # <<>>
    /\ history[1] = result[1]

====
